---- MODULE Spec2Model ----
(***************************************************************************)
(* Model of twister2's specification processing:                           *)
(*   - extract_tests (merge of the "common" block into every scenario),    *)
(*   - YamlSpecificationProcessor / RegularSpecificationProcessor.process, *)
(*   - should_be_skip and its eight predicates,                            *)
(*   - FilterPlugin.pytest_collection_modifyitems.                         *)
(* Each component has its own specification (SpecSkip, SpecFilter,         *)
(* SpecMerge, SpecProcess); the variables of the other components stay at  *)
(* their idle value.                                                       *)
(***************************************************************************)
EXTENDS Integers, Sequences, FiniteSets, TLC

VARIABLES
    pc,                 \* position of the component under check
    test_spec,          \* YamlTestSpecification handed to should_be_skip
    platform,           \* PlatformSpecification handed to should_be_skip
    skip_result,        \* return value of should_be_skip
    skip_log,           \* lines written to the 'testcases' logger
    evaluated,          \* predicates called by should_be_skip, in call order
    filters,            \* FilterPlugin._filters
    filter_match,       \* what each filter's filter(item) returns
    collected,          \* the items pytest collected (the hook's argument)
    items,              \* the live item list handed to the hook
    deselected_calls,   \* item batches passed to config.hook.pytest_deselected
    events,             \* filter(item) calls and hook calls, in order
    document,           \* the declaration as written in the file on disk
    raw_spec,           \* the loaded declaration (common, tests), merged in place
    extracted,          \* outcome of extract_tests
    processor,          \* fields of the specification processor
    tests,              \* processor.tests: scenario -> shared dictionary
    returned,           \* outcome of the last process call
    item_markers,       \* markers added to the pytest item
    ncalls              \* process calls made so far, per declared scenario

vars == <<pc, test_spec, platform, skip_result, skip_log, evaluated,
          filters, filter_match, collected, items, deselected_calls, events,
          document, raw_spec, extracted, processor, tests, returned, item_markers, ncalls>>

skipVars    == <<test_spec, platform, skip_result, skip_log, evaluated>>
filterVars  == <<filters, filter_match, collected, items, deselected_calls, events>>
mergeVars   == <<document, raw_spec, extracted>>
processVars == <<processor, tests, returned, item_markers, ncalls>>

Idle == <<>>

Range(s) == {s[i] : i \in 1..Len(s)}

(***************************************************************************)
(* Bounds                                                                  *)
(***************************************************************************)
MaxMem == 2      \* min_ram / min_flash range over 0..MaxMem
MaxItems == 2    \* at most MaxItems collected items
MaxScenarios == 2 \* at most MaxScenarios scenarios in one declaration
MaxTimeout == 3  \* declared timeouts range over 1..MaxTimeout
MaxCalls == 2    \* at most MaxCalls process calls reach a declared scenario
MulDen == 2      \* a timeout_multiplier m stands for the fraction m / MulDen

(***************************************************************************)
(* Platforms: PlatformSpecification is an external, read-only input.  The  *)
(* catalogue covers every value a predicate distinguishes: both            *)
(* architectures, several identifiers and types, ram/flash below, at and   *)
(* above a declared minimum, no / one / two toolchains, empty and          *)
(* non-empty only_tags and ignore_tags.  timeout_multiplier is the         *)
(* numerator of a fraction over MulDen.                                    *)
(***************************************************************************)
Platforms ==
    { [identifier |-> "qemu_x86", arch |-> "x86", type |-> "qemu",
       ram |-> 1, flash |-> 1, toolchain |-> <<"zephyr">>,
       only_tags |-> <<>>, ignore_tags |-> <<>>, timeout_multiplier |-> 2],
      [identifier |-> "nrf52", arch |-> "arm", type |-> "mcu",
       ram |-> 1, flash |-> 2, toolchain |-> <<"zephyr", "gnuarmemb">>,
       only_tags |-> <<>>, ignore_tags |-> <<"net">>, timeout_multiplier |-> 3],
      [identifier |-> "native", arch |-> "x86", type |-> "native",
       ram |-> 2, flash |-> 0, toolchain |-> <<>>,
       only_tags |-> <<"kernel">>, ignore_tags |-> <<>>, timeout_multiplier |-> 1],
      [identifier |-> "frdm", arch |-> "arm", type |-> "mcu",
       ram |-> 0, flash |-> 1, toolchain |-> <<"gnuarmemb">>,
       only_tags |-> <<"kernel", "net">>, ignore_tags |-> <<"net">>,
       timeout_multiplier |-> 4] }

(***************************************************************************)
(* Test specifications: the fields should_be_skip reads.                   *)
(***************************************************************************)
Harnesses == {"pytest", "console"}

TestSpecs ==
    [ original_name     : {"sc"},
      arch_allow        : SUBSET {"arm", "x86"},
      arch_exclude      : SUBSET {"arm"},
      platform_allow    : SUBSET {"nrf52"},
      platform_exclude  : SUBSET {"nrf52"},
      platform_type     : SUBSET {"mcu"},
      min_ram           : 0..MaxMem,
      min_flash         : 0..MaxMem,
      toolchain_allow   : SUBSET {"zephyr", "llvm"},
      toolchain_exclude : SUBSET {"gnuarmemb"},
      tags              : SUBSET {"kernel", "net"},
      harness           : Harnesses ]

(***************************************************************************)
(* _log_test_skip and the eight predicates.  A predicate returns its       *)
(* boolean and the lines it wrote to the skip-audit log.                   *)
(***************************************************************************)
_log_test_skip(ts, pl, reason) ==
    <<[test |-> ts.original_name, platform |-> pl.identifier, reason |-> reason]>>

NoSkip == [ret |-> FALSE, log |-> <<>>]
SkipBecause(ts, pl, reason) == [ret |-> TRUE, log |-> _log_test_skip(ts, pl, reason)]

should_skip_for_toolchain(ts, pl) ==
    IF pl.toolchain = <<>> THEN NoSkip
    ELSE IF ts.toolchain_allow # {} /\ (ts.toolchain_allow \cap Range(pl.toolchain)) = {}
         THEN SkipBecause(ts, pl, "platform.toolchain not in testcase.toolchain_allow")
    ELSE IF ts.toolchain_exclude # {} /\ (ts.toolchain_exclude \cap Range(pl.toolchain)) # {}
         THEN SkipBecause(ts, pl, "platform.toolchain in testcase.toolchain_exclude")
    ELSE NoSkip

should_skip_for_tag(ts, pl) ==
    IF pl.only_tags # <<>> /\ (Range(pl.only_tags) \cap ts.tags) = {}
    THEN SkipBecause(ts, pl, "testcase.tag not in platform.only_tags")
    ELSE IF pl.ignore_tags # <<>> /\ (Range(pl.ignore_tags) \cap ts.tags) # {}
    THEN SkipBecause(ts, pl, "testcase.tag in platform.ignore_tags")
    ELSE NoSkip

should_skip_for_arch(ts, pl) ==
    IF ts.arch_allow # {} /\ pl.arch \notin ts.arch_allow
    THEN SkipBecause(ts, pl, "platform.arch not in testcase.arch_allow")
    ELSE IF ts.arch_exclude # {} /\ pl.arch \in ts.arch_exclude
    THEN SkipBecause(ts, pl, "platform.arch in testcase.arch_exclude")
    ELSE NoSkip

should_skip_for_platform(ts, pl) ==
    IF ts.platform_allow # {} /\ pl.identifier \notin ts.platform_allow
    THEN SkipBecause(ts, pl, "platform.identifier not in testcase.platform_allow")
    ELSE IF ts.platform_exclude # {} /\ pl.identifier \in ts.platform_exclude
    THEN SkipBecause(ts, pl, "platform.identifier in testcase.platform_exclude")
    ELSE NoSkip

should_skip_for_platform_type(ts, pl) ==
    IF ts.platform_type # {} /\ pl.type \notin ts.platform_type
    THEN SkipBecause(ts, pl, "platform.type not in testcase.platform_type")
    ELSE NoSkip

MinRamGeq(ts, pl) ==
    IF ts.min_ram >= pl.ram
    THEN SkipBecause(ts, pl, "platform.ram is less than testcase.min_ram")
    ELSE NoSkip

should_skip_for_min_ram(ts, pl) ==
    IF ts.min_ram > pl.ram
    THEN SkipBecause(ts, pl, "platform.ram is less than testcase.min_ram")
    ELSE NoSkip

should_skip_for_min_flash(ts, pl) ==
    IF ts.min_flash > pl.flash
    THEN SkipBecause(ts, pl, "platform.flash is less than testcase.min_flash")
    ELSE NoSkip

should_skip_for_pytest_harness(ts, pl) ==
    IF ts.harness = "pytest"
    THEN SkipBecause(ts, pl, "test harness \"pytest\" is natively supported by pytest")
    ELSE NoSkip

(***************************************************************************)
(* should_be_skip: the argument of any() is a list display, so all eight   *)
(* calls are made, in this order, before any() looks at the first element. *)
(***************************************************************************)
PredicateList ==
    <<"arch", "min_flash", "min_ram", "platform", "platform_type",
      "pytest_harness", "tag", "toolchain">>

CallPredicate(name, ts, pl) ==
    CASE name = "arch"           -> should_skip_for_arch(ts, pl)
      [] name = "min_flash"      -> should_skip_for_min_flash(ts, pl)
      [] name = "min_ram"        -> should_skip_for_min_ram(ts, pl)
      [] name = "platform"       -> should_skip_for_platform(ts, pl)
      [] name = "platform_type"  -> should_skip_for_platform_type(ts, pl)
      [] name = "pytest_harness" -> should_skip_for_pytest_harness(ts, pl)
      [] name = "tag"            -> should_skip_for_tag(ts, pl)
      [] name = "toolchain"      -> should_skip_for_toolchain(ts, pl)

RECURSIVE ConcatLogs(_, _)
ConcatLogs(rs, i) ==
    IF i > Len(rs) THEN <<>> ELSE rs[i].log \o ConcatLogs(rs, i + 1)

should_be_skip(ts, pl) ==
    LET built == [i \in 1..Len(PredicateList) |-> CallPredicate(PredicateList[i], ts, pl)]
    IN  [ret       |-> \E i \in 1..Len(built) : built[i].ret,
         log       |-> ConcatLogs(built, 1),
         evaluated |-> [i \in 1..Len(built) |-> PredicateList[i]]]

(***************************************************************************)
(* SpecSkip: one call of should_be_skip on any specification and platform. *)
(***************************************************************************)
InitSkip ==
    /\ pc = "skip_ready"
    /\ test_spec \in TestSpecs
    /\ platform \in Platforms
    /\ skip_result = FALSE
    /\ skip_log = <<>>
    /\ evaluated = <<>>
    /\ filters = Idle /\ filter_match = Idle /\ collected = Idle /\ items = Idle
    /\ deselected_calls = Idle /\ events = Idle
    /\ document = Idle /\ raw_spec = Idle /\ extracted = Idle
    /\ processor = Idle /\ tests = Idle /\ returned = Idle
    /\ item_markers = Idle /\ ncalls = Idle

ShouldBeSkipCall ==
    /\ pc = "skip_ready"
    /\ LET r == should_be_skip(test_spec, platform)
       IN  /\ skip_result' = r.ret
           /\ skip_log' = r.log
           /\ evaluated' = r.evaluated
    /\ pc' = "skip_done"
    /\ UNCHANGED <<test_spec, platform>>
    /\ UNCHANGED <<filterVars, mergeVars, processVars>>

NextSkip == ShouldBeSkipCall

SpecSkip == InitSkip /\ [][NextSkip]_vars

(***************************************************************************)
(* C1: should_be_skip returns true exactly when one of the eight table     *)
(* conditions holds; an empty allow-set never skips and a minimum equal to *)
(* the available amount does not skip.                                     *)
(***************************************************************************)
TableArch(ts, pl) ==
    \/ (ts.arch_allow # {} /\ pl.arch \notin ts.arch_allow)
    \/ pl.arch \in ts.arch_exclude
TablePlatform(ts, pl) ==
    \/ (ts.platform_allow # {} /\ pl.identifier \notin ts.platform_allow)
    \/ pl.identifier \in ts.platform_exclude
TableType(ts, pl) == ts.platform_type # {} /\ pl.type \notin ts.platform_type
TableRam(ts, pl) == ts.min_ram > pl.ram
TableFlash(ts, pl) == ts.min_flash > pl.flash
TableToolchain(ts, pl) ==
    /\ Range(pl.toolchain) # {}
    /\ \/ (ts.toolchain_allow # {}
             /\ \A t \in ts.toolchain_allow : t \notin Range(pl.toolchain))
       \/ \E t \in ts.toolchain_exclude : t \in Range(pl.toolchain)
TableTags(ts, pl) ==
    \/ (Range(pl.only_tags) # {} /\ \A t \in Range(pl.only_tags) : t \notin ts.tags)
    \/ \E t \in Range(pl.ignore_tags) : t \in ts.tags
TableHarness(ts, pl) == ts.harness = "pytest"

TableSkip(ts, pl) ==
    \/ TableArch(ts, pl) \/ TablePlatform(ts, pl) \/ TableType(ts, pl)
    \/ TableRam(ts, pl) \/ TableFlash(ts, pl) \/ TableToolchain(ts, pl)
    \/ TableTags(ts, pl) \/ TableHarness(ts, pl)

C1_SkipIffTable ==
    pc = "skip_done" => (skip_result <=> TableSkip(test_spec, platform))

C1_Witness ==
    /\ pc = "skip_done"
    /\ ~skip_result
    /\ test_spec.arch_allow = {} /\ test_spec.platform_allow = {}
    /\ test_spec.toolchain_allow = {}
    /\ test_spec.min_ram = platform.ram /\ test_spec.min_ram > 0
    /\ test_spec.min_flash = platform.flash /\ test_spec.min_flash > 0

(***************************************************************************)
(* C2: one call of should_be_skip stops at the first predicate that        *)
(* returns true and writes exactly one skip-audit line, the reason of that *)
(* first matching predicate.                                               *)
(***************************************************************************)
FirstMatch(ts, pl) ==
    CHOOSE i \in 1..Len(PredicateList) :
        /\ CallPredicate(PredicateList[i], ts, pl).ret
        /\ \A j \in 1..(i - 1) : ~CallPredicate(PredicateList[j], ts, pl).ret

C2_ShortCircuitOneLogLine ==
    (pc = "skip_done" /\ skip_result) =>
        LET first == FirstMatch(test_spec, platform)
        IN  /\ evaluated = SubSeq(PredicateList, 1, first)
            /\ skip_log = CallPredicate(PredicateList[first], test_spec, platform).log

(***************************************************************************)
(* FilterPlugin.  A filter is identified by its name; filter_match[f] is   *)
(* the set of items for which f.filter(item) returns true.                 *)
(***************************************************************************)
FilterUniverse == {"slow", "tag", "extra"}
ItemUniverse == 1..MaxItems

ItemLists == UNION {[1..n -> ItemUniverse] : n \in 0..MaxItems}

FilterCallEvent(f, item) ==
    [op |-> "filter", filter |-> f, item |-> item, batch |-> <<>>]
DeselectedEvent(batch) ==
    [op |-> "pytest_deselected", filter |-> "", item |-> 0, batch |-> batch]

\* The body of the inner for loop without the break of the else branch.
FilterBodyNoBreakInElse(fm, f, item, st) ==
    IF item \in fm[f]
    THEN [selected   |-> st.selected,
          deselected |-> Append(st.deselected, item),
          events     |-> Append(st.events, FilterCallEvent(f, item)),
          brk        |-> TRUE]
    ELSE [selected   |-> Append(st.selected, item),
          deselected |-> st.deselected,
          events     |-> Append(st.events, FilterCallEvent(f, item)),
          brk        |-> FALSE]

\* The body of "for filter_ in self._filters": both branches end in break.
FilterBody(fm, f, item, st) ==
    IF item \in fm[f]
    THEN [selected   |-> st.selected,
          deselected |-> Append(st.deselected, item),
          events     |-> Append(st.events, FilterCallEvent(f, item)),
          brk        |-> TRUE]
    ELSE [selected   |-> Append(st.selected, item),
          deselected |-> st.deselected,
          events     |-> Append(st.events, FilterCallEvent(f, item)),
          brk        |-> TRUE]

RECURSIVE ForFilters(_, _, _, _, _)
ForFilters(fm, fs, k, item, st) ==
    IF k > Len(fs) THEN st
    ELSE LET after == FilterBody(fm, fs[k], item, st)
         IN  IF after.brk THEN after ELSE ForFilters(fm, fs, k + 1, item, after)

RECURSIVE ForItems(_, _, _, _, _)
ForItems(fm, fs, its, n, st) ==
    IF n > Len(its) THEN st
    ELSE ForItems(fm, fs, its, n + 1, ForFilters(fm, fs, 1, its[n], st))

pytest_collection_modifyitems(fm, fs, its) ==
    LET st == ForItems(fm, fs, its, 1,
                       [selected |-> <<>>, deselected |-> <<>>,
                        events |-> <<>>, brk |-> FALSE])
        reported == st.deselected # <<>>
    IN  [items  |-> st.selected,
         calls  |-> IF reported THEN <<st.deselected>> ELSE <<>>,
         events |-> IF reported
                    THEN Append(st.events, DeselectedEvent(st.deselected))
                    ELSE st.events]

InitFilter ==
    /\ pc = "filter_ready"
    /\ filters = <<"slow">>
    /\ filter_match \in [FilterUniverse -> SUBSET ItemUniverse]
    /\ collected \in ItemLists
    /\ items = collected
    /\ deselected_calls = <<>>
    /\ events = <<>>
    /\ test_spec = Idle /\ platform = Idle /\ skip_result = FALSE
    /\ skip_log = Idle /\ evaluated = Idle
    /\ document = Idle /\ raw_spec = Idle /\ extracted = Idle
    /\ processor = Idle /\ tests = Idle /\ returned = Idle
    /\ item_markers = Idle /\ ncalls = Idle

add_filter(f) ==
    /\ pc = "filter_ready"
    /\ filters' = IF f \notin Range(filters) THEN Append(filters, f) ELSE filters
    /\ UNCHANGED <<pc, filter_match, collected, items, deselected_calls, events>>
    /\ UNCHANGED <<skipVars, mergeVars, processVars>>

CollectionModifyItems ==
    /\ pc = "filter_ready"
    /\ LET r == pytest_collection_modifyitems(filter_match, filters, items)
       IN  /\ items' = r.items
           /\ deselected_calls' = r.calls
           /\ events' = r.events
    /\ pc' = "filter_done"
    /\ UNCHANGED <<filters, filter_match, collected>>
    /\ UNCHANGED <<skipVars, mergeVars, processVars>>

NextFilter ==
    \/ \E f \in FilterUniverse : add_filter(f)
    \/ CollectionModifyItems

SpecFilter == InitFilter /\ [][NextFilter]_vars

(***************************************************************************)
(* C3: filters are evaluated in registration order, and an item is         *)
(* deselected exactly when some registered filter returns true for it and  *)
(* kept exactly when none does.                                            *)
(***************************************************************************)
SomeFilterMatches(item) == \E k \in 1..Len(filters) : item \in filter_match[filters[k]]

Reported == IF deselected_calls = <<>> THEN {} ELSE Range(deselected_calls[1])

C3_DeselectedIffSomeFilterMatches ==
    pc = "filter_done" =>
        \A item \in Range(collected) :
            /\ item \in Reported <=> SomeFilterMatches(item)
            /\ item \in Range(items) <=> ~SomeFilterMatches(item)
            /\ LET called == SelectSeq(events, LAMBDA e : e.op = "filter" /\ e.item = item)
                   upto == IF SomeFilterMatches(item)
                           THEN CHOOSE k \in 1..Len(filters) :
                                    /\ item \in filter_match[filters[k]]
                                    /\ \A j \in 1..(k - 1) : item \notin filter_match[filters[j]]
                           ELSE Len(filters)
               IN  [i \in 1..Len(called) |-> called[i].filter] = SubSeq(filters, 1, upto)

(***************************************************************************)
(* C10: after one run every collected item (each occurrence of it) is in   *)
(* exactly one of the live collection and the deselected batch; the live   *)
(* collection is the kept items in their original order;                   *)
(* pytest_deselected is called at most once, after every filter call,      *)
(* with exactly the deselected items, and not at all when nothing was      *)
(* deselected.                                                             *)
(***************************************************************************)
Occurrences(s, x) == Cardinality({i \in 1..Len(s) : s[i] = x})

Batches == IF deselected_calls = <<>> THEN <<>> ELSE deselected_calls[1]

C10_PartitionOrderAndSingleBatch ==
    pc = "filter_done" =>
        LET InLive(x) == x \in Range(items)
            NotInLive(x) == x \notin Range(items)
        IN  /\ Len(deselected_calls) <= 1
            /\ \A x \in Range(collected) :
                   Occurrences(items, x) + Occurrences(Batches, x) = Occurrences(collected, x)
            /\ Range(items) \cup Range(Batches) = Range(collected)
            /\ items = SelectSeq(collected, InLive)
            /\ Batches = SelectSeq(collected, NotInLive)
            /\ (deselected_calls # <<>>) => deselected_calls[1] # <<>>
            /\ \A i \in 1..Len(events) :
                   events[i].op = "pytest_deselected" =>
                       /\ i = Len(events)
                       /\ events[i].batch = deselected_calls[1]
                       /\ Cardinality({j \in 1..(i - 1) : events[j].op = "filter"})
                              = Len(collected)
            /\ (deselected_calls # <<>>) =>
                   (events # <<>> /\ events[Len(events)].op = "pytest_deselected")

C10_Witness ==
    /\ pc = "filter_done"
    /\ Len(filters) >= 2
    /\ Len(collected) = MaxItems
    /\ \A i, j \in 1..Len(collected) : i # j => collected[i] # collected[j]
    /\ Len(items) >= 1
    /\ deselected_calls # <<>>
    /\ \E x \in Range(items) : filter_match[filters[2]] = {x}

(***************************************************************************)
(* extract_tests.  A YAML value is a string, a list or an integer; a       *)
(* mapping is a function from the keys it holds to values.                 *)
(***************************************************************************)
StrVal(x)  == [kind |-> "str",  s |-> x,  l |-> <<>>, n |-> 0]
ListVal(x) == [kind |-> "list", s |-> "", l |-> x,    n |-> 0]
IntVal(x) == [kind |-> "int",  s |-> "", l |-> <<>>, n |-> x]
Absent  == [kind |-> "absent", s |-> "", l |-> <<>>, n |-> 0]

Keys == {"filter", "extra_args"}
KeyOrder == <<"filter", "extra_args">>

CommonValues(k) ==
    IF k = "filter" THEN {Absent, StrVal(""), StrVal("A")}
    ELSE {Absent, StrVal(""), StrVal("C"), ListVal(<<>>), ListVal(<<"c">>), IntVal(7)}
ScenarioValues(k) ==
    IF k = "filter" THEN {Absent, StrVal(""), StrVal("B")}
    ELSE {Absent, StrVal(""), StrVal("S"), ListVal(<<>>), ListVal(<<"s">>), IntVal(3)}

Present(f) == [k \in {k \in Keys : f[k] # Absent} |-> f[k]]
CommonDicts == {Present(f) : f \in {g \in [Keys -> UNION {CommonValues(k) : k \in Keys}] :
                                        \A k \in Keys : g[k] \in CommonValues(k)}}
ScenarioDicts == {Present(f) : f \in {g \in [Keys -> UNION {ScenarioValues(k) : k \in Keys}] :
                                        \A k \in Keys : g[k] \in ScenarioValues(k)}}

Documents ==
    [common : CommonDicts,
     tests  : UNION {[1..n -> ScenarioDicts] : n \in 1..MaxScenarios}]

Put(d, k, v) == [x \in DOMAIN d \cup {k} |-> IF x = k THEN v ELSE d[x]]

RECURSIVE Join(_, _)
Join(sep, ss) ==
    IF ss = <<>> THEN ""
    ELSE IF Len(ss) = 1 THEN ss[1]
    ELSE ss[1] \o sep \o Join(sep, Tail(ss))

AllStr(args) == \A i \in 1..Len(args) : args[i].kind = "str"

\* _join_filters: [err, val]; the length test precedes the removal of empty strings
_join_filters(args) ==
    IF ~AllStr(args) THEN [err |-> "AssertionError", val |-> Absent]
    ELSE IF Len(args) = 1 THEN [err |-> "none", val |-> args[1]]
    ELSE LET kept == SelectSeq(args, LAMBDA a : a.s # "")
             wrapped == [i \in 1..Len(kept) |-> "(" \o kept[i].s \o ")"]
         IN  [err |-> "none", val |-> StrVal(Join(" and ", wrapped))]

_join_strings(args) ==
    IF ~AllStr(args) THEN [err |-> "AssertionError", val |-> Absent]
    ELSE LET kept == SelectSeq(args, LAMBDA a : a.s # "")
         IN  [err |-> "none", val |-> StrVal(Join(" ", [i \in 1..Len(kept) |-> kept[i].s]))]

AddCommonFirst(own, common_value) ==
    IF own.kind = "list"
    THEN [err |-> "none", val |-> ListVal(common_value.l \o own.l)]
    ELSE [err |-> "TypeError", val |-> Absent]

\* test_spec_dict[key] + common_value, common_value a list
AddLists(own, common_value) ==
    IF own.kind = "list"
    THEN [err |-> "none", val |-> ListVal(own.l \o common_value.l)]
    ELSE [err |-> "TypeError", val |-> Absent]

\* the value stored for one key of common, lines 127-139
MergeKey(key, d, common_value) ==
    IF key \in DOMAIN d
    THEN IF key = "filter" THEN _join_filters(<<d[key], common_value>>)
         ELSE IF common_value.kind = "str" THEN _join_strings(<<d[key], common_value>>)
         ELSE IF common_value.kind = "list" THEN AddLists(d[key], common_value)
         ELSE [err |-> "none", val |-> d[key]]
    ELSE [err |-> "none", val |-> common_value]

\* "for key, common_value in common.items()" on one scenario:
\* [err, dict, common]; an exception leaves the keys merged so far in place
RECURSIVE ForCommonItems(_, _, _)
ForCommonItems(common, d, i) ==
    IF i > Len(KeyOrder) THEN [err |-> "none", dict |-> d, common |-> common]
    ELSE IF KeyOrder[i] \notin DOMAIN common THEN ForCommonItems(common, d, i + 1)
    ELSE LET r == MergeKey(KeyOrder[i], d, common[KeyOrder[i]])
         IN  IF r.err # "none" THEN [err |-> r.err, dict |-> d, common |-> common]
             ELSE ForCommonItems(common, Put(d, KeyOrder[i], r.val), i + 1)

\* a merge that folds the scenario into the shared common mapping itself
MergeIntoCommon(common, d) ==
    LET r == ForCommonItems(common, d, 1)
    IN  [err |-> r.err, dict |-> r.dict,
         common |-> IF r.err = "none" THEN r.dict ELSE common]

MergeScenario(common, d) == ForCommonItems(common, d, 1)

\* "for test_name, test_spec_dict in raw_spec['tests'].items()"
RECURSIVE ForTests(_, _, _)
ForTests(common, ts, n) ==
    IF n > Len(ts) THEN [err |-> "none", tests |-> ts, common |-> common]
    ELSE LET r == MergeScenario(common, ts[n])
         IN  IF r.err # "none"
             THEN [err |-> r.err, tests |-> [ts EXCEPT ![n] = r.dict], common |-> r.common]
             ELSE ForTests(r.common, [ts EXCEPT ![n] = r.dict], n + 1)

\* [err, tests (returned mapping), raw (raw_spec after the call)]
extract_tests(raw) ==
    LET r == ForTests(raw.common, raw.tests, 1)
    IN  [err   |-> r.err,
         tests |-> IF r.err = "none" THEN r.tests ELSE <<>>,
         raw   |-> [common |-> r.common, tests |-> r.tests]]

InitMerge ==
    /\ pc = "merge_ready"
    /\ document \in Documents
    /\ raw_spec = document
    /\ extracted = [err |-> "none", tests |-> <<>>]
    /\ test_spec = Idle /\ platform = Idle /\ skip_result = FALSE
    /\ skip_log = Idle /\ evaluated = Idle
    /\ filters = Idle /\ filter_match = Idle /\ collected = Idle /\ items = Idle
    /\ deselected_calls = Idle /\ events = Idle
    /\ processor = Idle /\ tests = Idle /\ returned = Idle
    /\ item_markers = Idle /\ ncalls = Idle

ExtractTests ==
    /\ pc = "merge_ready"
    /\ LET r == extract_tests(raw_spec)
       IN  /\ extracted' = [err |-> r.err, tests |-> r.tests]
           /\ raw_spec' = r.raw
    /\ pc' = "merge_done"
    /\ UNCHANGED document
    /\ UNCHANGED <<skipVars, filterVars, processVars>>

NextMerge == ExtractTests

SpecMerge == InitMerge /\ [][NextMerge]_vars

InBoth(i, k) == k \in DOMAIN document.common /\ k \in DOMAIN document.tests[i]

(***************************************************************************)
(* C4: a key present in common and in a scenario whose two values are not  *)
(* covered by the filter, string/string or list/list rules keeps the       *)
(* scenario's own value, and no error is raised.                           *)
(***************************************************************************)
Uncovered(i, k) ==
    /\ InBoth(i, k)
    /\ k # "filter"
    /\ ~(document.common[k].kind = "str" /\ document.tests[i][k].kind = "str")
    /\ ~(document.common[k].kind = "list" /\ document.tests[i][k].kind = "list")

C4_MismatchKeepsScenarioValue ==
    pc = "merge_done" =>
        \A i \in 1..Len(document.tests) : \A k \in Keys :
            Uncovered(i, k) =>
                /\ extracted.err = "none"
                /\ extracted.tests[i][k] = document.tests[i][k]

(***************************************************************************)
(* C5: the merged filter of a scenario filter B and a common filter A is   *)
(* "(B) and (A)" when both are non-empty, and the other expression         *)
(* unchanged, without parentheses, when one of them is the empty string.   *)
(***************************************************************************)
C5_FilterEmptyIsIdentity ==
    (pc = "merge_done" /\ extracted.err = "none") =>
        \A i \in 1..Len(document.tests) :
            InBoth(i, "filter") =>
                LET B == document.tests[i]["filter"].s
                    A == document.common["filter"].s
                IN  extracted.tests[i]["filter"] =
                        StrVal(IF A = "" THEN B
                            ELSE IF B = "" THEN A
                            ELSE "(" \o B \o ") and (" \o A \o ")")

(***************************************************************************)
(* C7: extract_tests leaves the common mapping as it was, and every        *)
(* scenario's merged fields equal the merge of that scenario alone with    *)
(* the original common.                                                    *)
(***************************************************************************)
Alone(i) == extract_tests([common |-> document.common, tests |-> <<document.tests[i]>>])

C7_CommonUntouchedScenariosIndependent ==
    pc = "merge_done" =>
        /\ raw_spec.common = document.common
        /\ extracted.err = "none" =>
               \A i \in 1..Len(document.tests) :
                   /\ Alone(i).err = "none"
                   /\ extracted.tests[i] = Alone(i).tests[1]

C7_Witness ==
    /\ pc = "merge_done"
    /\ extracted.err = "none"
    /\ Len(document.tests) = MaxScenarios
    /\ \A i \in 1..Len(document.tests) :
           /\ InBoth(i, "extra_args")
           /\ extracted.tests[i]["extra_args"] = ListVal(<<"s", "c">>)

(***************************************************************************)
(* C8: for well-typed inputs every scenario is the fold of common into its *)
(* overrides: a key only in common is inherited, two lists become the      *)
(* scenario's entries followed by common's, two strings (other than        *)
(* filter) the non-empty values joined by one space, scenario first; keys  *)
(* only in the scenario, and every key under an empty common, are          *)
(* unchanged.                                                              *)
(***************************************************************************)
WellTyped(doc) ==
    \A i \in 1..Len(doc.tests) : \A k \in DOMAIN doc.common \cap DOMAIN doc.tests[i] :
        doc.common[k].kind = doc.tests[i][k].kind

SpaceJoined(a, b) ==
    IF a = "" THEN b ELSE IF b = "" THEN a ELSE a \o " " \o b

FoldedValue(c, sc, k) ==
    IF k \notin DOMAIN sc THEN c[k]
    ELSE IF k \notin DOMAIN c THEN sc[k]
    ELSE IF sc[k].kind = "list" THEN ListVal(sc[k].l \o c[k].l)
    ELSE IF sc[k].kind = "str" THEN StrVal(SpaceJoined(sc[k].s, c[k].s))
    ELSE sc[k]

C8_MergeIsFold ==
    (pc = "merge_done" /\ WellTyped(document)) =>
        /\ extracted.err = "none"
        /\ Len(extracted.tests) = Len(document.tests)
        /\ \A i \in 1..Len(document.tests) :
               LET c == document.common
                   sc == document.tests[i]
                   got == extracted.tests[i]
               IN  /\ DOMAIN got = DOMAIN sc \cup DOMAIN c
                   /\ \A k \in DOMAIN got \ {"filter"} : got[k] = FoldedValue(c, sc, k)
                   /\ ("filter" \in DOMAIN got /\ ~InBoth(i, "filter")) =>
                          got["filter"] = FoldedValue(c, sc, "filter")
                   /\ (DOMAIN c = {}) => got = sc

C8_Witness ==
    /\ pc = "merge_done"
    /\ WellTyped(document)
    /\ Len(document.tests) = MaxScenarios
    /\ document.common = [k \in Keys |-> IF k = "filter" THEN StrVal("A") ELSE ListVal(<<"c">>)]
    /\ document.tests[1] = [k \in {"extra_args"} |-> ListVal(<<"s">>)]
    /\ extracted.tests[1] = [k \in Keys |-> IF k = "filter" THEN StrVal("A") ELSE ListVal(<<"s", "c">>)]

(***************************************************************************)
(* Specification processors.  A path is the sequence of its components.    *)
(* tests[scenario] is the dictionary extract_tests returned for the        *)
(* scenario; every process call writes into it.                            *)
(***************************************************************************)
ScenarioNames == {"s1", "s2"}
RequestedNames == ScenarioNames \cup {"missing"}

BasePaths == {<<"zephyr", "tests">>}
TestDirectories == {<<"zephyr", "tests", "a">>, <<"zephyr", "samples">>, <<"ext", "tests", "a">>}

UnsetPath == [kind |-> "unset", path |-> <<>>, s |-> ""]
PathVal(p) == [kind |-> "path", path |-> p, s |-> ""]
StrPath(x) == [kind |-> "str", path |-> <<>>, s |-> x]

DeclaredDicts ==
    [ original_name     : {""},
      arch_allow        : {{}, {"arm"}},
      arch_exclude      : {{}},
      platform_allow    : {{}},
      platform_exclude  : {{}},
      platform_type     : {{}},
      min_ram           : {0},
      min_flash         : {0},
      toolchain_allow   : {{}},
      toolchain_exclude : {{}},
      tags              : {{}},
      harness           : {"console"},
      timeout           : 1..MaxTimeout,
      name              : {""},
      platform          : {""},
      build_name        : {""},
      source_dir        : {UnsetPath},
      rel_to_base_path  : {UnsetPath} ]

NoSpec == CHOOSE d \in DeclaredDicts : d.arch_allow = {} /\ d.timeout = 1

Ceil(a, b) == (a + b - 1) \div b

\* math.ceil(x): the least integer not below x, x = num / MulDen
math_ceil(num) == Ceil(num, MulDen)

\* Path.relative_to(p, base): ValueError unless base is a leading part of p
relative_to(p, base) ==
    IF Len(base) <= Len(p) /\ SubSeq(p, 1, Len(base)) = base
    THEN [err |-> "none", val |-> PathVal(SubSeq(p, Len(base) + 1, Len(p)))]
    ELSE [err |-> "ValueError", val |-> UnsetPath]

\* create_spec_from_dict that also stores the scaled timeout in the dictionary
CreateSpecWritingBack(test_spec_dict, pl) ==
    LET scaled == math_ceil(test_spec_dict.timeout * pl.timeout_multiplier)
    IN  [spec |-> [test_spec_dict EXCEPT !.timeout = scaled],
         dict |-> [test_spec_dict EXCEPT !.timeout = scaled]]

\* create_spec_from_dict: [spec, dict]; the dictionary is only read
create_spec_from_dict(test_spec_dict, pl) ==
    [spec |-> [test_spec_dict EXCEPT
                   !.timeout = math_ceil(test_spec_dict.timeout * pl.timeout_multiplier)],
     dict |-> test_spec_dict]

\* YamlSpecificationProcessor.prepare_spec_dict: [err, dict]
YamlPrepareSpecDict(proc, ts, pl, scenario) ==
    IF scenario \notin DOMAIN ts
    THEN [err |-> "TwisterConfigurationException", dict |-> NoSpec]
    ELSE LET rel == relative_to(proc.test_directory_path, proc.base)
         IN  [err  |-> "none",
              dict |-> [ts[scenario] EXCEPT
                            !.name = scenario \o "[" \o pl.identifier \o "]",
                            !.original_name = scenario,
                            !.platform = pl.identifier,
                            !.source_dir = PathVal(proc.test_directory_path),
                            !.rel_to_base_path =
                                IF rel.err = "none" THEN rel.val
                                ELSE StrPath("out_of_tree")]]

\* RegularSpecificationProcessor.prepare_spec_dict: [err, dict]; the
\* ValueError of relative_to leaves the keys written before it in place
RegularPrepareSpecDict(proc, ts, pl, scenario) ==
    IF scenario \notin DOMAIN ts
    THEN [err |-> "TwisterConfigurationException", dict |-> NoSpec]
    ELSE LET rel == relative_to(proc.test_directory_path, proc.base)
             written == [ts[scenario] EXCEPT
                             !.name = proc.item_name,
                             !.original_name = proc.item_originalname,
                             !.source_dir = PathVal(proc.test_directory_path),
                             !.platform = pl.identifier,
                             !.build_name = scenario]
         IN  IF rel.err = "none"
             THEN [err |-> "none", dict |-> [written EXCEPT !.rel_to_base_path = rel.val]]
             ELSE [err |-> rel.err, dict |-> written]

SkipFields(spec) ==
    [f \in {"original_name", "arch_allow", "arch_exclude", "platform_allow",
            "platform_exclude", "platform_type", "min_ram", "min_flash",
            "toolchain_allow", "toolchain_exclude", "tags", "harness"} |-> spec[f]]

Outcome(kind, exc, spec, pl, scenario) ==
    [kind |-> kind, exc |-> exc, spec |-> spec,
     platform |-> pl.identifier, multiplier |-> pl.timeout_multiplier,
     scenario |-> scenario]

RECURSIVE Sum(_, _)
Sum(f, S) == IF S = {} THEN 0 ELSE LET x == CHOOSE x \in S : TRUE IN f[x] + Sum(f, S \ {x})
CallsMade == Sum(ncalls, ScenarioNames)

InitProcess ==
    /\ pc = "process"
    /\ processor \in [kind : {"yaml", "regular"},
                      base : BasePaths,
                      test_directory_path : TestDirectories,
                      item_name : {"test_a[nrf52]"},
                      item_originalname : {"test_a"}]
    /\ tests \in [ScenarioNames -> DeclaredDicts]
    /\ tests["s2"].arch_allow = {}
    /\ document = tests
    /\ returned = [kind |-> "init", exc |-> "", spec |-> NoSpec,
                   platform |-> "", multiplier |-> 0, scenario |-> ""]
    /\ item_markers = <<>>
    /\ ncalls = [n \in ScenarioNames |-> 0]
    /\ test_spec = Idle /\ platform = Idle /\ skip_result = FALSE
    /\ skip_log = Idle /\ evaluated = Idle
    /\ filters = Idle /\ filter_match = Idle /\ collected = Idle /\ items = Idle
    /\ deselected_calls = Idle /\ events = Idle
    /\ raw_spec = Idle /\ extracted = Idle

\* YamlSpecificationProcessor.process
YamlProcess(pl, scenario) ==
    /\ pc = "process"
    /\ processor.kind = "yaml"
    /\ scenario \in ScenarioNames => CallsMade < MaxCalls
    /\ ncalls' = IF scenario \in ScenarioNames
                 THEN [ncalls EXCEPT ![scenario] = @ + 1]
                 ELSE ncalls
    /\ LET prepared == YamlPrepareSpecDict(processor, tests, pl, scenario)
       IN  IF prepared.err # "none"
           THEN /\ returned' = Outcome("raise", prepared.err, NoSpec, pl, scenario)
                /\ UNCHANGED tests
           ELSE LET created == create_spec_from_dict(prepared.dict, pl)
                IN  /\ tests' = [tests EXCEPT ![scenario] = created.dict]
                    /\ returned' =
                           IF ~should_be_skip(SkipFields(created.spec), pl).ret
                           THEN Outcome("spec", "", created.spec, pl, scenario)
                           ELSE Outcome("none", "", NoSpec, pl, scenario)
    /\ UNCHANGED <<pc, processor, item_markers, document>>
    /\ UNCHANGED <<skipVars, filterVars, raw_spec, extracted>>

\* RegularSpecificationProcessor.process
RegularProcess(pl, scenario) ==
    /\ pc = "process"
    /\ processor.kind = "regular"
    /\ scenario \in ScenarioNames => CallsMade < MaxCalls
    /\ ncalls' = IF scenario \in ScenarioNames
                 THEN [ncalls EXCEPT ![scenario] = @ + 1]
                 ELSE ncalls
    /\ LET prepared == RegularPrepareSpecDict(processor, tests, pl, scenario)
       IN  IF prepared.err = "TwisterConfigurationException"
           THEN /\ returned' = Outcome("raise", prepared.err, NoSpec, pl, scenario)
                /\ UNCHANGED <<tests, item_markers>>
           ELSE IF prepared.err # "none"
           THEN /\ returned' = Outcome("raise", prepared.err, NoSpec, pl, scenario)
                /\ tests' = [tests EXCEPT ![scenario] = prepared.dict]
                /\ UNCHANGED item_markers
           ELSE LET created == create_spec_from_dict(prepared.dict, pl)
                IN  /\ tests' = [tests EXCEPT ![scenario] = created.dict]
                    /\ item_markers' =
                           IF should_be_skip(SkipFields(created.spec), pl).ret
                           THEN Append(item_markers, "skip")
                           ELSE item_markers
                    /\ returned' = Outcome("spec", "", created.spec, pl, scenario)
    /\ UNCHANGED <<pc, processor, document>>
    /\ UNCHANGED <<skipVars, filterVars, raw_spec, extracted>>

NextProcess ==
    \/ \E pl \in Platforms, scenario \in RequestedNames : YamlProcess(pl, scenario)
    \/ \E pl \in Platforms, scenario \in RequestedNames : RegularProcess(pl, scenario)

SpecProcess == InitProcess /\ [][NextProcess]_vars

OutOfTree == relative_to(processor.test_directory_path, processor.base).err # "none"

(***************************************************************************)
(* C6: in both resolver variants a source directory outside the project    *)
(* root gives rel_to_base_path = 'out_of_tree', and process does not       *)
(* raise the path-relativization failure.                                  *)
(***************************************************************************)
C6_OutOfTreeNeverRaises ==
    (returned.kind # "init" /\ returned.scenario \in ScenarioNames /\ OutOfTree) =>
        /\ returned.kind # "raise"
        /\ tests[returned.scenario].rel_to_base_path = StrPath("out_of_tree")

(***************************************************************************)
(* C9: whatever calls came before, the timeout of a returned specification *)
(* is ceil(declared timeout x the platform's timeout_multiplier): the      *)
(* least integer not below the product of the timeout declared for the     *)
(* scenario and the multiplier of the platform of this call.               *)
(***************************************************************************)
C9_TimeoutIsCeilOfDeclared ==
    returned.kind = "spec" =>
        LET declared == document[returned.scenario].timeout
            product == declared * returned.multiplier       \* over MulDen
            t == returned.spec.timeout
        IN  /\ t * MulDen >= product
            /\ (t - 1) * MulDen < product
            /\ tests[returned.scenario].timeout = declared

C9_Witness ==
    /\ returned.kind = "spec"
    /\ ncalls[returned.scenario] = MaxCalls
    /\ (document[returned.scenario].timeout * returned.multiplier) % MulDen # 0
    /\ returned.multiplier > MulDen

====
